-------------------------------- MODULE Spec2Model --------------------------------
(***************************************************************************)
(* A model of the 2D ray caster of src/main.cpp: the render loop           *)
(* (Application::run / render), the frame buffer surface (Renderer), the   *)
(* sweep (RayCaster::traceRays), the intersection solver (Ray::cast), the  *)
(* containment test (Scene::isPointOnSegment), the beam rasterizer         *)
(* (Renderer::drawRay) and the wall outline pass (drawWalls / drawLine).   *)
(*                                                                         *)
(* Scale.  The program draws into an 800 x 600 buffer with 7200 rays per   *)
(* sweep.  The model is the same program at a coarser resolution: every    *)
(* length of the source (buffer size, wall coordinates, the attenuation    *)
(* length 1/k) is multiplied by GRID/800, so the buffer is GRID pixels     *)
(* wide (16 x 12 for GRID = 16) and the scene keeps its shape; the angular *)
(* step is ANGLE_STEP_DEG whole degrees instead of 0.05.  The code is      *)
(* translated with these as parameters.                                    *)
(*                                                                         *)
(* Numbers.  float is modelled exactly where the code's arithmetic is      *)
(* rational (Ray::cast works on fractions num/den, drawRay's position is   *)
(* an integer count of 1/TRIG pixels) and by fixed point where it is not:  *)
(* cos and sin are a table in units of 1/TRIG, hypot is rounded down to    *)
(* 1/FIX of a pixel.  Rounding error of the float operations is not        *)
(* modelled.  A colour is the tuple <<a, r, g, b>> of its four bytes.      *)
(***************************************************************************)
EXTENDS Integers, Sequences, FiniteSets, TLC

(***************************************************************************)
(* Bounds of the model.                                                    *)
(***************************************************************************)
\* Width of the modelled buffer in pixels (800 in the source).
GRID == 16
\* Angular step in whole degrees (0.05 in the source, #define ANGLE_STEP_DEG).
ANGLE_STEP_DEG == 30
\* Cap on the iterations of one drawRay loop, so that a loop that never
\* exits is a finite, stuck run of the model (never reached by the code).
MaxSteps == 40

(***************************************************************************)
(* Constants of the program.                                               *)
(***************************************************************************)
\* #define SCREEN_WIDTH 800, #define SCREEN_HEIGHT 600
SCREEN_WIDTH_SRC == 800
SCREEN_HEIGHT_SRC == 600

\* A length of the source, in pixels of the modelled buffer.
Px(v) == (v * GRID) \div SCREEN_WIDTH_SRC
\* A length of the model, back in pixels of the source (rounded down).
SrcPx(d) == (d * SCREEN_WIDTH_SRC) \div GRID

SCREEN_WIDTH == Px(SCREEN_WIDTH_SRC)
SCREEN_HEIGHT == Px(SCREEN_HEIGHT_SRC)

\* Units of the fixed-point numbers: cos/sin in 1/TRIG, distances in 1/FIX.
TRIG == 1000
FIX == 64
\* std::numeric_limits<float>::infinity(): above every finite distance.
INFINITY == 1073741824

\* The colours the program stores (ARGB8888 as <<a, r, g, b>>), and the
\* content of memory nobody has written yet.
BLACK == <<255, 0, 0, 0>>
WHITE == <<255, 255, 255, 255>>
UNDEFINED == <<>>

(***************************************************************************)
(* Floating-point helpers.                                                 *)
(***************************************************************************)
Abs(n) == IF n < 0 THEN -n ELSE n
Sign(n) == IF n < 0 THEN -1 ELSE IF n > 0 THEN 1 ELSE 0

\* static_cast<int>(n / m), m > 0: the fraction is dropped, towards zero.
TruncDiv(n, m) == IF n >= 0 THEN n \div m ELSE -((-n) \div m)

\* The integer square root, rounded down.  Root is given its argument as
\* a value (v \in {n}), so that n is computed once.
Root(v) == CHOOSE r \in 0 .. 46339 : r * r <= v /\ v < (r + 1) * (r + 1)
ISqrt(n) == CHOOSE r \in {Root(v) : v \in {n}} : TRUE

\* std::cos / std::sin of an angle in whole degrees, in units of 1/TRIG.
CosTable ==
  <<
     1000, 1000, 999, 999, 998, 996, 995, 993, 990, 988, 985, 982, 978, 974, 970,
     966, 961, 956, 951, 946, 940, 934, 927, 921, 914, 906, 899, 891, 883, 875,
     866, 857, 848, 839, 829, 819, 809, 799, 788, 777, 766, 755, 743, 731, 719,
     707, 695, 682, 669, 656, 643, 629, 616, 602, 588, 574, 559, 545, 530, 515,
     500, 485, 469, 454, 438, 423, 407, 391, 375, 358, 342, 326, 309, 292, 276,
     259, 242, 225, 208, 191, 174, 156, 139, 122, 105, 87, 70, 52, 35, 17,
     0, -17, -35, -52, -70, -87, -105, -122, -139, -156, -174, -191, -208, -225, -242,
     -259, -276, -292, -309, -326, -342, -358, -375, -391, -407, -423, -438, -454, -469, -485,
     -500, -515, -530, -545, -559, -574, -588, -602, -616, -629, -643, -656, -669, -682, -695,
     -707, -719, -731, -743, -755, -766, -777, -788, -799, -809, -819, -829, -839, -848, -857,
     -866, -875, -883, -891, -899, -906, -914, -921, -927, -934, -940, -946, -951, -956, -961,
     -966, -970, -974, -978, -982, -985, -988, -990, -993, -995, -996, -998, -999, -999, -1000,
     -1000, -1000, -999, -999, -998, -996, -995, -993, -990, -988, -985, -982, -978, -974, -970,
     -966, -961, -956, -951, -946, -940, -934, -927, -921, -914, -906, -899, -891, -883, -875,
     -866, -857, -848, -839, -829, -819, -809, -799, -788, -777, -766, -755, -743, -731, -719,
     -707, -695, -682, -669, -656, -643, -629, -616, -602, -588, -574, -559, -545, -530, -515,
     -500, -485, -469, -454, -438, -423, -407, -391, -375, -358, -342, -326, -309, -292, -276,
     -259, -242, -225, -208, -191, -174, -156, -139, -122, -105, -87, -70, -52, -35, -17,
     0, 17, 35, 52, 70, 87, 105, 122, 139, 156, 174, 191, 208, 225, 242,
     259, 276, 292, 309, 326, 342, 358, 375, 391, 407, 423, 438, 454, 469, 485,
     500, 515, 530, 545, 559, 574, 588, 602, 616, 629, 643, 656, 669, 682, 695,
     707, 719, 731, 743, 755, 766, 777, 788, 799, 809, 819, 829, 839, 848, 857,
     866, 875, 883, 891, 899, 906, 914, 921, 927, 934, 940, 946, 951, 956, 961,
     966, 970, 974, 978, 982, 985, 988, 990, 993, 995, 996, 998, 999, 999, 1000
  >>
Cos(angle) == CosTable[(angle % 360) + 1]
Sin(angle) == Cos(angle + 270)

\* static_cast<Uint8>(clamp(expf(-k * d)) * 255.0f) for k = 0.005f and
\* d = 0, 1, 2, ... source pixels; 0 from the end of the table on.
AlphaTable ==
  <<
     255, 253, 252, 251, 249, 248, 247, 246, 245, 243, 242, 241, 240, 238, 237, 236, 235, 234, 233, 231,
     230, 229, 228, 227, 226, 225, 223, 222, 221, 220, 219, 218, 217, 216, 215, 214, 212, 211, 210, 209,
     208, 207, 206, 205, 204, 203, 202, 201, 200, 199, 198, 197, 196, 195, 194, 193, 192, 191, 190, 189,
     188, 187, 187, 186, 185, 184, 183, 182, 181, 180, 179, 178, 177, 177, 176, 175, 174, 173, 172, 171,
     170, 170, 169, 168, 167, 166, 165, 165, 164, 163, 162, 161, 160, 160, 159, 158, 157, 157, 156, 155,
     154, 153, 153, 152, 151, 150, 150, 149, 148, 147, 147, 146, 145, 144, 144, 143, 142, 142, 141, 140,
     139, 139, 138, 137, 137, 136, 135, 135, 134, 133, 133, 132, 131, 131, 130, 129, 129, 128, 127, 127,
     126, 125, 125, 124, 124, 123, 122, 122, 121, 121, 120, 119, 119, 118, 118, 117, 116, 116, 115, 115,
     114, 114, 113, 112, 112, 111, 111, 110, 110, 109, 108, 108, 107, 107, 106, 106, 105, 105, 104, 104,
     103, 103, 102, 102, 101, 101, 100, 100, 99, 99, 98, 98, 97, 97, 96, 96, 95, 95, 94, 94,
     93, 93, 92, 92, 91, 91, 91, 90, 90, 89, 89, 88, 88, 87, 87, 87, 86, 86, 85, 85,
     84, 84, 84, 83, 83, 82, 82, 81, 81, 81, 80, 80, 79, 79, 79, 78, 78, 77, 77, 77,
     76, 76, 76, 75, 75, 74, 74, 74, 73, 73, 73, 72, 72, 71, 71, 71, 70, 70, 70, 69,
     69, 69, 68, 68, 68, 67, 67, 67, 66, 66, 66, 65, 65, 65, 64, 64, 64, 63, 63, 63,
     62, 62, 62, 61, 61, 61, 61, 60, 60, 60, 59, 59, 59, 58, 58, 58, 58, 57, 57, 57,
     56, 56, 56, 56, 55, 55, 55, 54, 54, 54, 54, 53, 53, 53, 53, 52, 52, 52, 52, 51,
     51, 51, 50, 50, 50, 50, 49, 49, 49, 49, 48, 48, 48, 48, 48, 47, 47, 47, 47, 46,
     46, 46, 46, 45, 45, 45, 45, 44, 44, 44, 44, 44, 43, 43, 43, 43, 43, 42, 42, 42,
     42, 41, 41, 41, 41, 41, 40, 40, 40, 40, 40, 39, 39, 39, 39, 39, 38, 38, 38, 38,
     38, 37, 37, 37, 37, 37, 37, 36, 36, 36, 36, 36, 35, 35, 35, 35, 35, 35, 34, 34,
     34, 34, 34, 33, 33, 33, 33, 33, 33, 32, 32, 32, 32, 32, 32, 32, 31, 31, 31, 31,
     31, 31, 30, 30, 30, 30, 30, 30, 30, 29, 29, 29, 29, 29, 29, 28, 28, 28, 28, 28,
     28, 28, 27, 27, 27, 27, 27, 27, 27, 27, 26, 26, 26, 26, 26, 26, 26, 25, 25, 25,
     25, 25, 25, 25, 25, 24, 24, 24, 24, 24, 24, 24, 24, 23, 23, 23, 23, 23, 23, 23,
     23, 23, 22, 22, 22, 22, 22, 22, 22, 22, 22, 21, 21, 21, 21, 21, 21, 21, 21, 21,
     20, 20, 20, 20, 20, 20, 20, 20, 20, 20, 19, 19, 19, 19, 19, 19, 19, 19, 19, 19,
     18, 18, 18, 18, 18, 18, 18, 18, 18, 18, 18, 17, 17, 17, 17, 17, 17, 17, 17, 17,
     17, 17, 16, 16, 16, 16, 16, 16, 16, 16, 16, 16, 16, 16, 15, 15, 15, 15, 15, 15,
     15, 15, 15, 15, 15, 15, 15, 14, 14, 14, 14, 14, 14, 14, 14, 14, 14, 14, 14, 14,
     14, 13, 13, 13, 13, 13, 13, 13, 13, 13, 13, 13, 13, 13, 13, 13, 12, 12, 12, 12,
     12, 12, 12, 12, 12, 12, 12, 12, 12, 12, 12, 12, 11, 11, 11, 11, 11, 11, 11, 11,
     11, 11, 11, 11, 11, 11, 11, 11, 11, 10, 10, 10, 10, 10, 10, 10, 10, 10, 10, 10,
     10, 10, 10, 10, 10, 10, 10, 10, 9, 9, 9, 9, 9, 9, 9, 9, 9, 9, 9, 9,
     9, 9, 9, 9, 9, 9, 9, 9, 9, 8, 8, 8, 8, 8, 8, 8, 8, 8, 8, 8,
     8, 8, 8, 8, 8, 8, 8, 8, 8, 8, 8, 8, 8, 7, 7, 7, 7, 7, 7, 7,
     7, 7, 7, 7, 7, 7, 7, 7, 7, 7, 7, 7, 7, 7, 7, 7, 7, 7, 7, 7,
     6, 6, 6, 6, 6, 6, 6, 6, 6, 6, 6, 6, 6, 6, 6, 6, 6, 6, 6, 6,
     6, 6, 6, 6, 6, 6, 6, 6, 6, 6, 5, 5, 5, 5, 5, 5, 5, 5, 5, 5,
     5, 5, 5, 5, 5, 5, 5, 5, 5, 5, 5, 5, 5, 5, 5, 5, 5, 5, 5, 5,
     5, 5, 5, 5, 5, 5, 5, 4, 4, 4, 4, 4, 4, 4, 4, 4, 4, 4, 4, 4,
     4, 4, 4, 4, 4, 4, 4, 4, 4, 4, 4, 4, 4, 4, 4, 4, 4, 4, 4, 4,
     4, 4, 4, 4, 4, 4, 4, 4, 4, 4, 4, 3, 3, 3, 3, 3, 3, 3, 3, 3,
     3, 3, 3, 3, 3, 3, 3, 3, 3, 3, 3, 3, 3, 3, 3, 3, 3, 3, 3, 3,
     3, 3, 3, 3, 3, 3, 3, 3, 3, 3, 3, 3, 3, 3, 3, 3, 3, 3, 3, 3,
     3, 3, 3, 3, 3, 3, 3, 3, 3, 2, 2, 2, 2, 2, 2, 2, 2, 2, 2, 2,
     2, 2, 2, 2, 2, 2, 2, 2, 2, 2, 2, 2, 2, 2, 2, 2, 2, 2, 2, 2,
     2, 2, 2, 2, 2, 2, 2, 2, 2, 2, 2, 2, 2, 2, 2, 2, 2, 2, 2, 2,
     2, 2, 2, 2, 2, 2, 2, 2, 2, 2, 2, 2, 2, 2, 2, 2, 2, 2, 2, 2,
     2, 2, 2, 2, 2, 2, 2, 2, 2, 2, 1, 1, 1, 1, 1, 1, 1, 1, 1, 1,
     1, 1, 1, 1, 1, 1, 1, 1, 1, 1, 1, 1, 1, 1, 1, 1, 1, 1, 1, 1,
     1, 1, 1, 1, 1, 1, 1, 1, 1, 1, 1, 1, 1, 1, 1, 1, 1, 1, 1, 1,
     1, 1, 1, 1, 1, 1, 1, 1, 1, 1, 1, 1, 1, 1, 1, 1, 1, 1, 1, 1,
     1, 1, 1, 1, 1, 1, 1, 1, 1, 1, 1, 1, 1, 1, 1, 1, 1, 1, 1, 1,
     1, 1, 1, 1, 1, 1, 1, 1, 1, 1, 1, 1, 1, 1, 1, 1, 1, 1, 1, 1,
     1, 1, 1, 1, 1, 1, 1, 1, 1, 1, 1, 1, 1, 1, 1, 1, 1, 1, 1, 1,
     1, 1, 1, 1, 1, 1, 1, 1, 1, 0
  >>
Alpha(d) ==
  LET r == SrcPx(d)
  IN IF r >= Len(AlphaTable) THEN 0 ELSE AlphaTable[r + 1]

(***************************************************************************)
(* Geometry: Point, Segment, Ray.                                          *)
(***************************************************************************)
\* A Point whose coordinates are the fractions xn/den and yn/den, and the
\* point {infinity, infinity} that Ray::cast returns for "no intersection".
Point(xn, yn, den) == [inf |-> FALSE, xn |-> xn, yn |-> yn, den |-> den]
NoIntersection == [inf |-> TRUE, xn |-> 0, yn |-> 0, den |-> 1]

Segment(x1, y1, x2, y2) == [x1 |-> x1, y1 |-> y1, x2 |-> x2, y2 |-> y2]

\* Ray::Ray: pos and the direction {cos(angle), sin(angle)}, in 1/TRIG.
Ray(x, y, angle) ==
  [pos |-> [x |-> x, y |-> y], dir |-> [x |-> Cos(angle), y |-> Sin(angle)]]

\* Ray::cast without the test u >= 0: a wall behind the origin is hit too.
Cast_NoForwardTest(ray, wall) ==
  LET x1 == wall.x1
      y1 == wall.y1
      x2 == wall.x2
      y2 == wall.y2
      x3 == ray.pos.x
      y3 == ray.pos.y
      x3mx4 == -ray.dir.x
      y3my4 == -ray.dir.y
      den == (x1 - x2) * y3my4 - (y1 - y2) * x3mx4
      tnum == (x1 - x3) * y3my4 - (y1 - y3) * x3mx4
      s == Sign(den)
  IN IF den = 0 THEN NoIntersection
     ELSE IF tnum * s >= 0 /\ tnum * s <= den * s
          THEN Point(x1 * den + tnum * (x2 - x1), y1 * den + tnum * (y2 - y1), den)
          ELSE NoIntersection

\* Ray::cast.  x3 - x4 = -dir.x and y3 - y4 = -dir.y; den and the numerator
\* of t carry the factor 1/TRIG of dir, which cancels in t and leaves the
\* sign of u as it is.
Cast(ray, wall) ==
  LET x1 == wall.x1
      y1 == wall.y1
      x2 == wall.x2
      y2 == wall.y2
      x3 == ray.pos.x
      y3 == ray.pos.y
      x3mx4 == -ray.dir.x
      y3my4 == -ray.dir.y
      den == (x1 - x2) * y3my4 - (y1 - y2) * x3mx4
      tnum == (x1 - x3) * y3my4 - (y1 - y3) * x3mx4
      unum == -((x1 - x2) * (y1 - y3) - (y1 - y2) * (x1 - x3))
      s == Sign(den)
  IN IF den = 0 THEN NoIntersection
     ELSE IF tnum * s >= 0 /\ tnum * s <= den * s /\ unum * s >= 0
          THEN Point(x1 * den + tnum * (x2 - x1), y1 * den + tnum * (y2 - y1), den)
          ELSE NoIntersection

\* hypot(p.x - originX, p.y - originY) in units of 1/FIX; infinite for the
\* point at infinity.
FixFrac(n, m) == (Abs(n) \div Abs(m)) * FIX + ((Abs(n) % Abs(m)) * FIX) \div Abs(m)
Hypot(p, originX, originY) ==
  IF p.inf THEN INFINITY
  ELSE LET a == FixFrac(p.xn - originX * p.den, p.den)
           b == FixFrac(p.yn - originY * p.den, p.den)
       IN ISqrt(a * a + b * b)

\* Scene::isPointOnSegment(int x, int y, wall).
IsPointOnSegment(x, y, wall) ==
  LET dx == wall.x2 - wall.x1
      dy == wall.y2 - wall.y1
      cross == (x - wall.x1) * dy - (y - wall.y1) * dx
      minX == IF wall.x1 < wall.x2 THEN wall.x1 ELSE wall.x2
      maxX == IF wall.x1 < wall.x2 THEN wall.x2 ELSE wall.x1
      minY == IF wall.y1 < wall.y2 THEN wall.y1 ELSE wall.y2
      maxY == IF wall.y1 < wall.y2 THEN wall.y2 ELSE wall.y1
  IN IF Abs(cross) > 0 THEN FALSE
     ELSE IF x < minX \/ x > maxX \/ y < minY \/ y > maxY THEN FALSE
          ELSE TRUE

\* Scene::Scene: the walls, in the source's order.
SceneWalls ==
  << Segment(Px(400), Px(400), Px(500), Px(500)),
     Segment(Px(300), Px(100), Px(300), Px(300)),
     Segment(Px(500), Px(600), Px(400), Px(500)),
     Segment(Px(300), Px(300), Px(100), Px(300)),
     Segment(Px(100), Px(300), Px(100), Px(100)),
     Segment(Px(600), Px(150), Px(600), Px(450)),
     Segment(Px(200), Px(450), Px(200), Px(150)) >>

(***************************************************************************)
(* Inputs: the scenes a sweep is run on and the pointer positions.         *)
(***************************************************************************)
\* Two parallel walls that the ray of angle 0 from the buffer centre
\* crosses 100 and 50 source pixels away; the farther one comes first.
ParallelWalls ==
  << Segment(Px(500), Px(200), Px(500), Px(400)),
     Segment(Px(450), Px(200), Px(450), Px(400)) >>

Scenes == {SceneWalls, ParallelWalls, <<>>}

Centre == [x |-> Px(400), y |-> Px(300)]

\* What SDL_GetMouseState can report: positions inside the window.
Origins ==
  { Centre,
    [x |-> Px(400), y |-> Px(400)],
    [x |-> Px(300), y |-> Px(200)],
    [x |-> 0, y |-> Px(300)],
    [x |-> Px(400), y |-> 0] }

(***************************************************************************)
(* State.                                                                  *)
(***************************************************************************)
VARIABLES
  pc,           \* where the single thread is
  running,      \* Application::running
  walls,        \* Scene::walls
  mouse,        \* render(): mouseX, mouseY of this frame
  pixelBuffer,  \* Renderer::pixelBuffer: "null", "locked" or "dangling"
  pixelPerRow,  \* Renderer::pixelPerRow (0: not initialised)
  pixels,       \* the memory SDL_LockTexture handed out
  texture,      \* the content of the SDL texture, which endFrame presents
  lockFailed,   \* this frame's SDL_LockTexture returned an error
  presented,    \* endFrame has presented this frame
  i,            \* traceRays: index of the ray
  wallNo,       \* traceRays: number of the wall in the loop (1 is the first)
  closest,      \* traceRays: closestIntersection and closestDistance
  ray,          \* drawRay: parameters and locals of the current call
  w,            \* drawWalls: index of the wall
  line,         \* drawLine: parameters and locals of the current call
  calls,        \* history: the drawRay calls of this frame
  stored,       \* history: the last colour stored at each index this frame
  lastStore,    \* history: who stored last, and at which x, y
  sweep         \* history: "none", "running", "complete" or "aborted"

vars ==
  << pc, running, walls, mouse, pixelBuffer, pixelPerRow, pixels, texture,
     lockFailed, presented, i, wallNo, closest, ray, w, line, calls, stored,
     lastStore, sweep >>

\* pitch of a SCREEN_WIDTH-wide ARGB8888 texture, in bytes.
PITCH == SCREEN_WIDTH * 4
BufferIndexes == 0 .. (SCREEN_WIDTH * SCREEN_HEIGHT - 1)

Uninitialised == [p \in BufferIndexes |-> UNDEFINED]
NothingStored == [p \in BufferIndexes |-> UNDEFINED]
NoRay ==
  [x1 |-> 0, y1 |-> 0, angle |-> 0, distance |-> 0, stepX |-> 0, stepY |-> 0,
   currentX |-> 0, currentY |-> 0, d |-> 0, written |-> 0, done |-> TRUE]
NoLine ==
  [x1 |-> 0, y1 |-> 0, x2 |-> 0, y2 |-> 0, dx |-> 0, dy |-> 0, sx |-> 0,
   sy |-> 0, err |-> 0]
\* closestIntersection and closestDistance before any wall is cast.
NothingHit == [intersection |-> NoIntersection, distance |-> INFINITY]
NoStore == [by |-> "none", x |-> 0, y |-> 0, index |-> 0]

\* Application::Application and initialize(): nothing is locked, nothing
\* has been drawn.
Init ==
  /\ pc = "handleEvents"
  /\ running = TRUE
  /\ walls \in Scenes
  /\ mouse = Centre
  /\ pixelBuffer = "null"
  /\ pixelPerRow = 0
  /\ pixels = Uninitialised
  /\ texture = Uninitialised
  /\ lockFailed = FALSE
  /\ presented = FALSE
  /\ i = 0
  /\ wallNo = 1
  /\ closest = NothingHit
  /\ ray = NoRay
  /\ w = 1
  /\ line = NoLine
  /\ calls = <<>>
  /\ stored = NothingStored
  /\ lastStore = NoStore
  /\ sweep = "none"

(***************************************************************************)
(* The render loop.                                                        *)
(***************************************************************************)
\* Application::handleEvents: an SDL_QUIT event clears running.
HandleEvents ==
  /\ pc = "handleEvents"
  /\ \E quit \in BOOLEAN : running' = (running /\ ~quit)
  /\ pc' = "render"
  /\ presented' = FALSE
  /\ UNCHANGED << walls, mouse, pixelBuffer, pixelPerRow, pixels, texture,
                  lockFailed, i, wallNo, closest, ray, w, line, calls, stored,
                  lastStore, sweep >>

\* Renderer::clearTexture.
ClearTexture(ppr) == [p \in 0 .. (ppr * SCREEN_HEIGHT - 1) |-> BLACK]

\* render() up to the call of traceRays: SDL_GetMouseState, then
\* Renderer::beginFrame, which returns early when SDL_LockTexture fails.
BeginFrame ==
  /\ pc = "render"
  /\ \E origin \in Origins : mouse' = origin
  /\ \E failed \in BOOLEAN :
       /\ lockFailed' = failed
       /\ IF ~failed
          THEN /\ pixelBuffer' = "locked"
               /\ pixelPerRow' = PITCH \div 4
               /\ pixels' = ClearTexture(PITCH \div 4)
          ELSE UNCHANGED << pixelBuffer, pixelPerRow, pixels >>
  /\ pc' = "traceRays"
  /\ i' = 0
  /\ calls' = <<>>
  /\ stored' = NothingStored
  /\ lastStore' = NoStore
  /\ sweep' = "running"
  /\ UNCHANGED << running, walls, texture, presented, wallNo, closest, ray, w, line >>

\* pixelBuffer[index] = colour.  Through the locked pointer the store lands
\* in the buffer.  Through a null or dangling pointer it is undefined
\* behaviour: the process dies, or the store lands in memory that is not
\* the texture's.
StoreOutcomes == IF pixelBuffer = "locked" THEN {"stored"} ELSE {"crash", "stray"}
StoreInto(mem, index, colour, outcome) ==
  IF outcome = "stored" /\ index \in DOMAIN mem
  THEN [mem EXCEPT ![index] = colour]
  ELSE mem
RecordStore(index, colour) ==
  IF index \in DOMAIN stored THEN [stored EXCEPT ![index] = colour] ELSE stored

(***************************************************************************)
(* RayCaster::traceRays.                                                   *)
(***************************************************************************)
\* The loop over the rays with i <= NUM_RAYS: one ray too many.
NUM_RAYS_OneMore == 360 \div ANGLE_STEP_DEG + 1

\* static_cast<int>(360.0f / ANGLE_STEP_DEG)
NUM_RAYS == 360 \div ANGLE_STEP_DEG

\* float angle = i * ANGLE_STEP_RAD, in whole degrees.
AngleOf(k) == k * ANGLE_STEP_DEG

\* The closest intersection replaced by every later hit: the last wall hit wins.
Closer_LastHit(distance, closestDistance) == distance < INFINITY

\* if (distance < closestDistance)
Closer(distance, closestDistance) == distance < closestDistance

\* Renderer::drawRay, up to its loop: the locals of a call.
DrawRayCall(x1, y1, angle, distance) ==
  [x1 |-> x1, y1 |-> y1, angle |-> angle, distance |-> distance,
   stepX |-> Cos(angle), stepY |-> Sin(angle),
   currentX |-> x1 * TRIG, currentY |-> y1 * TRIG,
   d |-> 0, written |-> 0, done |-> FALSE]

\* One turn of the loop over the rays: return after the last ray, else
\* start the loop over the walls with nothing hit yet.
TraceRays ==
  /\ pc = "traceRays"
  /\ IF i >= NUM_RAYS
     THEN /\ pc' = "drawWalls"
          /\ sweep' = "complete"
          /\ w' = 1
          /\ UNCHANGED << wallNo, closest >>
     ELSE /\ pc' = "checkWalls"
          /\ wallNo' = 1
          /\ closest' = NothingHit
          /\ UNCHANGED << sweep, w >>
  /\ UNCHANGED << running, walls, mouse, pixelBuffer, pixelPerRow, pixels,
                  texture, lockFailed, presented, i, ray, line, calls, stored,
                  lastStore >>

\* One turn of the loop over the walls for ray i: the containment test
\* returns from traceRays; otherwise the wall is cast and the closest
\* intersection kept.  After the last wall drawRay is called.
CheckWalls ==
  /\ pc = "checkWalls"
  /\ IF wallNo > Len(walls)
     THEN /\ pc' = "drawRay"
          /\ ray' = DrawRayCall(mouse.x, mouse.y, AngleOf(i), closest.distance)
          /\ calls' = Append(calls, [angle |-> AngleOf(i),
                                     distance |-> closest.distance])
          /\ UNCHANGED << wallNo, closest, sweep, w >>
     ELSE IF IsPointOnSegment(mouse.x, mouse.y, walls[wallNo])
          THEN /\ pc' = "drawWalls"
               /\ sweep' = "aborted"
               /\ w' = 1
               /\ UNCHANGED << wallNo, closest, ray, calls >>
          ELSE \E intersection \in {Cast(Ray(mouse.x, mouse.y, AngleOf(i)), walls[wallNo])} :
               \E distance \in {Hypot(intersection, mouse.x, mouse.y)} :
                  /\ closest' = IF Closer(distance, closest.distance)
                                THEN [intersection |-> intersection,
                                      distance |-> distance]
                                ELSE closest
                  /\ wallNo' = wallNo + 1
                  /\ UNCHANGED << pc, ray, calls, sweep, w >>
  /\ UNCHANGED << running, walls, mouse, pixelBuffer, pixelPerRow, pixels,
                  texture, lockFailed, presented, i, line, stored, lastStore >>

(***************************************************************************)
(* Renderer::drawRay: one iteration of its loop.                           *)
(***************************************************************************)
\* The bounds test with > for >=: column SCREEN_WIDTH and row SCREEN_HEIGHT pass.
RayOutOfBounds_OffByOne(drawX, drawY) ==
  drawX <= 0 \/ drawX > SCREEN_WIDTH \/ drawY <= 0 \/ drawY > SCREEN_HEIGHT

\* if (drawX <= 0 || drawX >= SCREEN_WIDTH || drawY <= 0 || drawY >= SCREEN_HEIGHT)
RayOutOfBounds(drawX, drawY) ==
  drawX <= 0 \/ drawX >= SCREEN_WIDTH \/ drawY <= 0 \/ drawY >= SCREEN_HEIGHT

\* The loop without its two breaks: only d <= distance ends it.
RayContinues_NoBreak(r) == r.d * FIX <= r.distance

\* The loop goes on at distance d: d <= distance, the alpha is not 0 and
\* the target pixel passes the bounds test.
RayContinues(r) ==
  /\ r.d * FIX <= r.distance
  /\ Alpha(r.d) # 0
  /\ ~RayOutOfBounds(TruncDiv(r.currentX, TRIG), TruncDiv(r.currentY, TRIG))

\* (alpha << 24) | (255 << 16) | (255 << 8) | 102
PixelColor(alpha) == <<alpha, 255, 255, 102>>

DrawRayStep ==
  /\ pc = "drawRay"
  /\ ray.d <= MaxSteps
  /\ IF RayContinues(ray)
     THEN LET drawX == TruncDiv(ray.currentX, TRIG)
              drawY == TruncDiv(ray.currentY, TRIG)
              index == drawY * pixelPerRow + drawX
              colour == PixelColor(Alpha(ray.d))
          IN /\ \E outcome \in StoreOutcomes :
                  /\ pixels' = StoreInto(pixels, index, colour, outcome)
                  /\ pc' = IF outcome = "crash" THEN "crashed" ELSE "drawRay"
             /\ stored' = RecordStore(index, colour)
             /\ lastStore' = [by |-> "drawRay", x |-> drawX, y |-> drawY, index |-> index]
             /\ ray' = [ray EXCEPT !.currentX = @ + ray.stepX,
                                   !.currentY = @ + ray.stepY,
                                   !.d = @ + 1,
                                   !.written = @ + 1]
             /\ UNCHANGED i
     ELSE /\ ray' = [ray EXCEPT !.done = TRUE]
          /\ pc' = "traceRays"
          /\ i' = i + 1
          /\ UNCHANGED << pixels, stored, lastStore >>
  /\ UNCHANGED << running, walls, mouse, pixelBuffer, pixelPerRow, texture,
                  lockFailed, presented, wallNo, closest, w, line, calls, sweep >>

(***************************************************************************)
(* Renderer::drawWalls and Renderer::drawLine.                             *)
(***************************************************************************)
\* Renderer::drawLine, up to its loop: the locals of a call.
DrawLineCall(x1, y1, x2, y2) ==
  LET dx == Abs(x2 - x1)
      dy == Abs(y2 - y1)
  IN [x1 |-> x1, y1 |-> y1, x2 |-> x2, y2 |-> y2, dx |-> dx, dy |-> dy,
      sx |-> IF x1 < x2 THEN 1 ELSE -1, sy |-> IF y1 < y2 THEN 1 ELSE -1,
      err |-> dx - dy]

\* One turn of the loop over the walls: call drawLine for wall w.
DrawWalls ==
  /\ pc = "drawWalls"
  /\ IF w > Len(walls)
     THEN /\ pc' = "endFrame"
          /\ UNCHANGED line
     ELSE /\ pc' = "drawLine"
          /\ line' = DrawLineCall(walls[w].x1, walls[w].y1, walls[w].x2, walls[w].y2)
  /\ UNCHANGED << running, walls, mouse, pixelBuffer, pixelPerRow, pixels,
                  texture, lockFailed, presented, i, wallNo, closest, ray, w, calls,
                  stored, lastStore, sweep >>

\* if (x1 >= 0 && x1 < SCREEN_WIDTH && y1 >= 0 && y1 < SCREEN_HEIGHT)
LineInBounds(x1, y1) ==
  x1 >= 0 /\ x1 < SCREEN_WIDTH /\ y1 >= 0 /\ y1 < SCREEN_HEIGHT

\* The Bresenham step after the pixel is plotted.
LineAdvance(l) ==
  LET e2 == 2 * l.err
      stepsX == e2 > -l.dy
      stepsY == e2 < l.dx
  IN [l EXCEPT !.err = @ - (IF stepsX THEN l.dy ELSE 0) + (IF stepsY THEN l.dx ELSE 0),
               !.x1 = IF stepsX THEN @ + l.sx ELSE @,
               !.y1 = IF stepsY THEN @ + l.sy ELSE @]

\* One iteration of drawLine's loop: plot (x1, y1) if it is in bounds, then
\* return at the end point or advance.
DrawLineStep ==
  /\ pc = "drawLine"
  /\ LET index == line.y1 * pixelPerRow + line.x1
         next == IF line.x1 = line.x2 /\ line.y1 = line.y2
                 THEN "drawWalls" ELSE "drawLine"
     IN IF LineInBounds(line.x1, line.y1)
        THEN /\ \E outcome \in StoreOutcomes :
                  /\ pixels' = StoreInto(pixels, index, WHITE, outcome)
                  /\ pc' = IF outcome = "crash" THEN "crashed" ELSE next
             /\ stored' = RecordStore(index, WHITE)
             /\ lastStore' = [by |-> "drawLine", x |-> line.x1, y |-> line.y1,
                              index |-> index]
        ELSE /\ pc' = next
             /\ UNCHANGED << pixels, stored, lastStore >>
  /\ IF line.x1 = line.x2 /\ line.y1 = line.y2
     THEN /\ w' = w + 1
          /\ UNCHANGED line
     ELSE /\ line' = LineAdvance(line)
          /\ UNCHANGED w
  /\ UNCHANGED << running, walls, mouse, pixelBuffer, pixelPerRow, texture,
                  lockFailed, presented, i, wallNo, closest, ray, calls, sweep >>

(***************************************************************************)
(* Renderer::endFrame, and the loop test of Application::run.              *)
(***************************************************************************)
\* SDL_UnlockTexture uploads the locked memory into the texture and ends
\* the pointer's validity; SDL_RenderCopy and SDL_RenderPresent show the
\* texture.  Nothing here depends on whether the lock was taken.
EndFrame ==
  /\ pc = "endFrame"
  /\ IF pixelBuffer = "locked"
     THEN /\ texture' = pixels
          /\ pixelBuffer' = "dangling"
          /\ pixels' = Uninitialised
     ELSE UNCHANGED << texture, pixelBuffer, pixels >>
  /\ presented' = TRUE
  /\ pc' = IF running THEN "handleEvents" ELSE "exited"
  /\ UNCHANGED << running, walls, mouse, pixelPerRow, lockFailed, i, wallNo,
                  closest, ray, w, line, calls, stored, lastStore, sweep >>

Next ==
  \/ HandleEvents
  \/ BeginFrame
  \/ TraceRays
  \/ CheckWalls
  \/ DrawRayStep
  \/ DrawWalls
  \/ DrawLineStep
  \/ EndFrame

Spec == Init /\ [][Next]_vars

\* The single thread always takes its next step.
FairSpec == Spec /\ WF_vars(Next)

(***************************************************************************)
(* Vocabulary of the properties.                                           *)
(***************************************************************************)
InsideBuffer(x, y) == 0 <= x /\ x < SCREEN_WIDTH /\ 0 <= y /\ y < SCREEN_HEIGHT

\* A frame has begun and its call of traceRays has returned.
SweepReturned == sweep \in {"complete", "aborted"}

\* The origin of this frame lies on some wall of the scene.
OriginOnWall ==
  \E k \in 1 .. Len(walls) : IsPointOnSegment(mouse.x, mouse.y, walls[k])

IsBeamColour(c) == c # UNDEFINED /\ c # BLACK /\ c # WHITE

\* The in-bounds pixels drawLine plots for a wall, as buffer indexes.
RECURSIVE PlottedFrom(_)
PlottedFrom(l) ==
  (IF InsideBuffer(l.x1, l.y1) THEN {l.y1 * SCREEN_WIDTH + l.x1} ELSE {})
    \cup (IF l.x1 = l.x2 /\ l.y1 = l.y2 THEN {} ELSE PlottedFrom(LineAdvance(l)))
WallPixels ==
  UNION { PlottedFrom(DrawLineCall(walls[k].x1, walls[k].y1, walls[k].x2, walls[k].y2)) :
            k \in 1 .. Len(walls) }

\* Every wall outline is opaque white in the image.
OutlinesIn(image) == \A p \in WallPixels : image[p] = WHITE

\* Every pixel of the image is black or the colour this frame stored there.
OnlyThisFrameIn(image) ==
  \A p \in BufferIndexes :
    image[p] = BLACK \/ (stored[p] # UNDEFINED /\ image[p] = stored[p])

(***************************************************************************)
(* C1.  When SDL_LockTexture fails in beginFrame, the frame's draw is      *)
(* aborted and presentation is skipped: no drawRay or drawLine store       *)
(* happens in that frame and endFrame does not present it.                 *)
(* The code goes on with traceRays, drawWalls and endFrame all the same.   *)
(***************************************************************************)
C1_FailedLockAbortsFrame ==
  lockFailed => (lastStore.by = "none" /\ ~presented)

(***************************************************************************)
(* C2.  Every pixel that drawRay or drawLine stores has 0 <= x <           *)
(* SCREEN_WIDTH and 0 <= y < SCREEN_HEIGHT, for any origin, angle and draw *)
(* distance (the infinite one included) and any wall end points (those on  *)
(* the buffer's edge included); through the locked pointer the store lands *)
(* inside the buffer.                                                      *)
(***************************************************************************)
C2_StoresInBounds ==
  lastStore.by # "none" =>
    /\ InsideBuffer(lastStore.x, lastStore.y)
    /\ pixelBuffer = "locked" => lastStore.index \in BufferIndexes

\* drawLine stands on a wall end point below the last row, which it skips,
\* after a beam of infinite draw distance has stored pixels.
C2_Witness ==
  /\ pc = "drawLine"
  /\ line.y1 = SCREEN_HEIGHT
  /\ lastStore.by = "drawLine"
  /\ \E n \in 1 .. Len(calls) : calls[n].distance = INFINITY
  /\ \E p \in BufferIndexes : IsBeamColour(stored[p])

(***************************************************************************)
(* C3.  The distance traceRays hands to drawRay is the minimum over all    *)
(* walls of the distance from the origin to the point Ray::cast returns    *)
(* for the wall (infinite when no wall is hit), whatever the order of the  *)
(* walls; of two parallel walls crossed 50 and 100 pixels away the one at  *)
(* 50 is chosen.                                                           *)
(***************************************************************************)
C3_NearestHit ==
  calls # <<>> =>
    LET c == calls[Len(calls)]
        r == Ray(mouse.x, mouse.y, c.angle)
        distances ==
          {Hypot(Cast(r, walls[n]), mouse.x, mouse.y) : n \in 1 .. Len(walls)}
            \cup {INFINITY}
    IN /\ c.distance \in distances
       /\ \A other \in distances : c.distance <= other
       /\ (walls = ParallelWalls /\ mouse = Centre /\ c.angle = 0)
            => c.distance = Px(50) * FIX

\* The ray of angle 0 from the centre crosses both parallel walls, the
\* farther first in the wall order, and is drawn up to the nearer one.
C3_Witness ==
  /\ walls = ParallelWalls
  /\ mouse = Centre
  /\ calls # <<>>
  /\ calls[1].angle = 0
  /\ Hypot(Cast(Ray(mouse.x, mouse.y, 0), walls[1]), mouse.x, mouse.y) = Px(100) * FIX
  /\ Hypot(Cast(Ray(mouse.x, mouse.y, 0), walls[2]), mouse.x, mouse.y) = Px(50) * FIX
  /\ calls[1].distance = Px(50) * FIX

(***************************************************************************)
(* C4.  A beam ends at exactly the first unit step d at which d exceeds    *)
(* the draw distance, the alpha of d is 0, or the target pixel is outside  *)
(* [0,width) x [0,height); every earlier step stores its pixel.  A target  *)
(* pixel in column 0 or row 0 is inside.                                   *)
(* The code's bounds test also ends the beam in column 0 and in row 0.     *)
(***************************************************************************)
TargetX(r, d) == TruncDiv(r.x1 * TRIG + d * Cos(r.angle), TRIG)
TargetY(r, d) == TruncDiv(r.y1 * TRIG + d * Sin(r.angle), TRIG)
BeamMustEnd(r, d) ==
  \/ d * FIX > r.distance
  \/ Alpha(d) = 0
  \/ ~InsideBuffer(TargetX(r, d), TargetY(r, d))
C4_BeamEndsAtFirstStop ==
  (calls # <<>> /\ ray.done) =>
    /\ BeamMustEnd(ray, ray.d)
    /\ \A e \in 0 .. (ray.d - 1) : ~BeamMustEnd(ray, e)
    /\ ray.written = ray.d

(***************************************************************************)
(* C5.  As claimed: one call of traceRays with angular step s makes        *)
(* exactly floor(360/s) drawRay calls, each with a distinct angle in       *)
(* [0, 360).                                                               *)
(* As amended: it does so when the origin lies on no wall; when the origin *)
(* lies on a wall it makes none.                                           *)
(***************************************************************************)
FullRotation ==
  /\ Len(calls) = 360 \div ANGLE_STEP_DEG
  /\ \A k \in 1 .. Len(calls) : 0 <= calls[k].angle /\ calls[k].angle < 360
  /\ \A j, k \in 1 .. Len(calls) : j # k => calls[j].angle # calls[k].angle
C5_FullRotationAlways == SweepReturned => FullRotation
C5_FullRotationOffWalls ==
  SweepReturned => IF OriginOnWall THEN calls = <<>> ELSE FullRotation

\* A sweep from an origin on no wall has returned after its last ray.
C5_Witness ==
  /\ sweep = "complete"
  /\ ~OriginOnWall
  /\ walls = SceneWalls
  /\ Len(calls) = 360 \div ANGLE_STEP_DEG
  /\ Len(calls) > 1

(***************************************************************************)
(* C6.  Ray::cast returns a point exactly when the wall is not parallel to *)
(* the ray (determinant # 0), the crossing lies between the wall's end     *)
(* points, these included (t in [0,1]), and it lies ahead of the origin    *)
(* or on it (u >= 0); the point is then on the wall segment and on the     *)
(* ray's line.  Otherwise (parallel or collinear wall, wall behind the     *)
(* origin) it returns the point at infinity.                               *)
(* The wall's end points A, B and the origin O are compared by the sides   *)
(* they lie on: sideA, sideB of the ray's line, aheadA, aheadB of the line *)
(* through O across the ray.                                               *)
(***************************************************************************)
Cross(ax, ay, bx, by) == ax * by - ay * bx
Dot(ax, ay, bx, by) == ax * bx + ay * by
CastIsRight(r, wall) ==
  LET p == Cast(r, wall)
      ox == r.pos.x
      oy == r.pos.y
      parallel == Cross(wall.x2 - wall.x1, wall.y2 - wall.y1, r.dir.x, r.dir.y) = 0
      sideA == Cross(r.dir.x, r.dir.y, wall.x1 - ox, wall.y1 - oy)
      sideB == Cross(r.dir.x, r.dir.y, wall.x2 - ox, wall.y2 - oy)
      aheadA == Dot(r.dir.x, r.dir.y, wall.x1 - ox, wall.y1 - oy)
      aheadB == Dot(r.dir.x, r.dir.y, wall.x2 - ox, wall.y2 - oy)
      between == Sign(sideA) * Sign(sideB) <= 0
      ahead == Abs(sideB) * aheadA + Abs(sideA) * aheadB >= 0
      s == Sign(p.den)
  IN /\ ~p.inf <=> (~parallel /\ between /\ ahead)
     /\ parallel => p.inf
     /\ ~p.inf =>
          /\ Cross(wall.x2 - wall.x1, wall.y2 - wall.y1,
                   p.xn - wall.x1 * p.den, p.yn - wall.y1 * p.den) = 0
          /\ \/ (wall.x1 * p.den * s <= p.xn * s /\ p.xn * s <= wall.x2 * p.den * s)
             \/ (wall.x2 * p.den * s <= p.xn * s /\ p.xn * s <= wall.x1 * p.den * s)
          /\ \/ (wall.y1 * p.den * s <= p.yn * s /\ p.yn * s <= wall.y2 * p.den * s)
             \/ (wall.y2 * p.den * s <= p.yn * s /\ p.yn * s <= wall.y1 * p.den * s)
          /\ Cross(r.dir.x, r.dir.y, p.xn - ox * p.den, p.yn - oy * p.den) = 0
C6_CastIsRight ==
  (pc = "drawRay" /\ ray.d = 0) =>
    \A k \in 1 .. Len(walls) : CastIsRight(Ray(mouse.x, mouse.y, ray.angle), walls[k])

\* One ray meets all three cases: a wall it hits, a wall parallel to it,
\* and a wall whose line it crosses behind the origin.
C6_Witness ==
  /\ pc = "drawRay"
  /\ ray.d = 0
  /\ LET r == Ray(mouse.x, mouse.y, ray.angle)
         den(k) == Cross(walls[k].x2 - walls[k].x1, walls[k].y2 - walls[k].y1,
                         r.dir.x, r.dir.y)
         sideA(k) == Cross(r.dir.x, r.dir.y, walls[k].x1 - mouse.x, walls[k].y1 - mouse.y)
         sideB(k) == Cross(r.dir.x, r.dir.y, walls[k].x2 - mouse.x, walls[k].y2 - mouse.y)
     IN /\ \E k \in 1 .. Len(walls) : ~Cast(r, walls[k]).inf
        /\ \E k \in 1 .. Len(walls) : den(k) = 0 /\ Cast(r, walls[k]).inf
        /\ \E k \in 1 .. Len(walls) :
             /\ den(k) # 0
             /\ Sign(sideA(k)) * Sign(sideB(k)) <= 0
             /\ Cast(r, walls[k]).inf

(***************************************************************************)
(* C7.  Every sweep terminates: each drawRay call returns, also with the   *)
(* infinite draw distance, and traceRays returns (or the process has died  *)
(* in a store), for any origin and any scene, the empty one included; the  *)
(* sweep is over before endFrame presents and before the next frame        *)
(* begins.                                                                 *)
(***************************************************************************)
C7_SweepTerminates ==
  /\ [](pc = "drawRay" => <>(pc \in {"traceRays", "crashed"}))
  /\ [](pc \in {"traceRays", "checkWalls", "drawRay"} => <>(pc \in {"drawWalls", "crashed"}))
  /\ [](pc \in {"endFrame", "handleEvents", "render", "exited"} => sweep # "running")
  /\ [](presented => SweepReturned)

\* In the empty scene a sweep of beams of infinite draw distance is over.
C7_Witness ==
  /\ walls = <<>>
  /\ sweep = "complete"
  /\ Len(calls) = NUM_RAYS
  /\ \A k \in 1 .. Len(calls) : calls[k].distance = INFINITY
  /\ ray.done
  /\ ray.written > 0
  /\ presented

(***************************************************************************)
(* C8.  In every frame the wall outlines are drawn after all beams and     *)
(* before presentation: when endFrame has presented, every in-bounds pixel *)
(* on the plotted line of every wall is opaque white in the presented      *)
(* image.                                                                  *)
(***************************************************************************)
C8_WallsOnTop == presented => OutlinesIn(texture)

(***************************************************************************)
(* C9.  When the origin lies on a wall, at whatever place in the wall      *)
(* order, traceRays returns before any beam is drawn: no drawRay call and  *)
(* no beam store happen in that frame; the wall outlines are still drawn   *)
(* and the frame is still presented.                                       *)
(***************************************************************************)
C9_OriginOnWallAbort ==
  (OriginOnWall /\ sweep # "none") =>
    /\ calls = <<>>
    /\ \A p \in BufferIndexes : ~IsBeamColour(stored[p])
    /\ pc # "crashed"
    /\ presented => (sweep = "aborted" /\ OutlinesIn(texture))

(***************************************************************************)
(* C10.  No pixel survives from an earlier frame: beginFrame sets every    *)
(* pixel to opaque black before any beam or wall pixel of the frame is     *)
(* stored, so each pixel of the presented image is opaque black or the     *)
(* beam colour or wall white this frame stored there.                      *)
(***************************************************************************)
C10_NothingSurvives ==
  /\ lastStore.by # "none" => ~lockFailed
  /\ presented => OnlyThisFrameIn(texture)

(***************************************************************************)
(* What holds of C8, C9 and C10 in the frames whose lock was taken.        *)
(***************************************************************************)
LockedFramesAreRight ==
  (presented /\ ~lockFailed) =>
    /\ OutlinesIn(texture)
    /\ OnlyThisFrameIn(texture)
    /\ OriginOnWall => \A p \in BufferIndexes : ~IsBeamColour(texture[p])
\* A frame whose lock was taken is presented, with its outlines.
LockedFramesArePresented ==
  [](pc = "traceRays" /\ ~lockFailed => <>(presented /\ OutlinesIn(texture)))

=============================================================================
